---- MODULE Spec2Model ----
(***************************************************************************)
(* bibfixer: BibFixAgent (src/bibfixer/agent.py), StructuredBibFixAgent    *)
(* (src/bibfixer/structured_agent.py) and the Streamlit handler            *)
(* (src/app.py).                                                           *)
(*                                                                         *)
(* Strings whose characters the code inspects (titles, author lists) are   *)
(* sequences of one-character strings.  Messages and prompts built by      *)
(* f-strings are sequences of tokens: the literal pieces of the template   *)
(* are single tokens, the interpolated values are spliced in.              *)
(***************************************************************************)
EXTENDS Integers, Sequences, FiniteSets, TLC

\* Python's None.
NoneVal == "<None>"

----------------------------------------------------------------------------
\* Python string primitives on character sequences.

Whitespace == {" ", "\n", "\t"}

RECURSIVE LStrip(_, _)
\* str.lstrip(chars)
LStrip(s, chars) ==
    IF s # <<>> /\ Head(s) \in chars THEN LStrip(Tail(s), chars) ELSE s

RECURSIVE RStrip(_, _)
\* str.rstrip(chars)
RStrip(s, chars) ==
    IF s # <<>> /\ s[Len(s)] \in chars
    THEN RStrip(SubSeq(s, 1, Len(s) - 1), chars)
    ELSE s

\* str.strip(chars): every leading and trailing character of the set goes.
StripChars(s, chars) == RStrip(LStrip(s, chars), chars)

\* str.strip()
Strip(s) == StripChars(s, Whitespace)

\* sub occurs in s at position i
OccursAt(s, sub, i) ==
    /\ i >= 1
    /\ i + Len(sub) - 1 <= Len(s)
    /\ SubSeq(s, i, i + Len(sub) - 1) = sub

\* sub in s
Contains(s, sub) == \E i \in 1..(Len(s) + 1) : OccursAt(s, sub, i)

\* s.split(sub)[0]: the part before the first occurrence of sub (all of s
\* when sub does not occur).
SplitFirst(s, sub) ==
    IF Contains(s, sub)
    THEN LET i == CHOOSE k \in 1..(Len(s) + 1) :
                    /\ OccursAt(s, sub, k)
                    /\ \A j \in 1..(k - 1) : ~OccursAt(s, sub, j)
         IN SubSeq(s, 1, i - 1)
    ELSE s

\* dict.get(key, default)
Get(d, k, default) == IF k \in DOMAIN d THEN d[k] ELSE default

AndSep == <<" ", "a", "n", "d", " ">>
Comma  == <<",">>

----------------------------------------------------------------------------
\* Input data.  A text is a sequence of chunks as bibtexparser sees them: a
\* record as written (entry type, key, and each field's value with its
\* delimiters) or a chunk that is no record ("JUNK").  <<>> is the empty
\* string.

Br(s) == <<"{">> \o s \o <<"}">>

AStudy  == <<"a", " ", "s", "t", "u", "d", "y">>
DoeJohn == <<"D", "o", "e", ",", " ", "J", "o", "h", "n">>
RoeAndDoe ==
    <<"R", "o", "e", ",", " ", "J", " ", "a", "n", "d", " ", "D", "o", "e">>
Plato   == <<"P", "l", "a", "t", "o">>
BIb     == <<"{", "B", "}", "i", "b">>
Y2020   == <<"2", "0", "2", "0">>

\* @article{doe2020,title={{a study}},author={Doe, John},year={2020}}
DoeRecord ==
    [type |-> "article", key |-> "doe2020",
     fields |-> [title |-> Br(Br(AStudy)), author |-> Br(DoeJohn),
                 year |-> Br(Y2020)]]

\* @inproceedings{roe21,title={{B}ib},author={Roe, J and Doe}}
RoeRecord ==
    [type |-> "inproceedings", key |-> "roe21",
     fields |-> [title |-> Br(BIb), author |-> Br(RoeAndDoe)]]

\* @misc{plato,title={a study},author={Plato}}
PlatoRecord ==
    [type |-> "misc", key |-> "plato",
     fields |-> [title |-> Br(AStudy), author |-> Br(Plato)]]

\* @book{anon,year={2020}}
AnonRecord ==
    [type |-> "book", key |-> "anon", fields |-> [year |-> Br(Y2020)]]

Junk == [type |-> "JUNK"]

IsRecord(chunk) == chunk.type # "JUNK"

\* The single-record and multi-record texts handed to the program.
Texts ==
    { <<>>, <<Junk>>,
      <<DoeRecord>>, <<RoeRecord>>, <<PlatoRecord>>, <<AnonRecord>>,
      <<DoeRecord, RoeRecord>>, <<Junk, PlatoRecord>> }

----------------------------------------------------------------------------
\* bibtexparser, the citation-format collaborator.

\* A field value as the parser returns it: the outer delimiter pair removed,
\* inner braces kept.
LoadsValue(raw) ==
    IF Len(raw) >= 2 /\ raw[1] = "{" /\ raw[Len(raw)] = "}"
    THEN SubSeq(raw, 2, Len(raw) - 1)
    ELSE raw

\* One parsed entry: a dict with ENTRYTYPE, ID and the record's fields.
LoadsEntry(rec) ==
    [k \in {"ENTRYTYPE", "ID"} \cup DOMAIN rec.fields |->
        IF k = "ENTRYTYPE" THEN rec.type
        ELSE IF k = "ID" THEN rec.key
        ELSE LoadsValue(rec.fields[k])]

RECURSIVE Loads(_)
\* bibtexparser.loads(text).entries: the records of the text, in order.
Loads(text) ==
    IF text = <<>> THEN <<>>
    ELSE IF IsRecord(Head(text))
         THEN <<LoadsEntry(Head(text))>> \o Loads(Tail(text))
         ELSE Loads(Tail(text))

\* BibTexWriter().write of a one-entry database: the entry written out again,
\* every value inside one brace pair.
WriterWrite(entry) ==
    << [type |-> entry["ENTRYTYPE"], key |-> entry["ID"],
        fields |-> [k \in DOMAIN entry \ {"ENTRYTYPE", "ID"} |-> Br(entry[k])]] >>

----------------------------------------------------------------------------
\* Exceptions: a type and str(e), a token sequence.

Exc(type, msg) == [type |-> type, msg |-> msg]

Raised(e)   == [raised |-> TRUE, exc |-> e]
Returned(v) == [raised |-> FALSE, value |-> v]

\* parse_bibtex, lines 84-93 of agent.py: the first author of an author list.
FirstAuthor(authors_str) ==
    IF authors_str # <<>>
    THEN IF Contains(authors_str, AndSep)
         THEN Strip(SplitFirst(authors_str, AndSep))
         ELSE IF Contains(authors_str, Comma)
              THEN Strip(SplitFirst(authors_str, Comma))
              ELSE Strip(authors_str)
    ELSE <<>>

\* parse_bibtex, line 83: the title without leading and trailing braces.
TitleOf(entry) == StripChars(Get(entry, "title", <<>>), {"{", "}"})

\* The except clause of parse_bibtex: every failure becomes a ValueError.
ParseError(cause) == Exc("ValueError", <<"Failed to parse BibTeX: ">> \o cause)

NoEntriesMsg == <<"No valid BibTeX entries found">>

\* BibFixAgent.parse_bibtex
ParseBibtexPlain(text) ==
    LET entries == Loads(text) IN
    IF entries = <<>>
    THEN Raised(ParseError(NoEntriesMsg))
    ELSE LET entry == entries[1] IN
         Returned([original_entry |-> entry,
                   title |-> TitleOf(entry),
                   first_author |-> FirstAuthor(Get(entry, "author", <<>>)),
                   entry_type |-> Get(entry, "ENTRYTYPE", "article")])

\* StructuredBibFixAgent.parse_bibtex
ParseBibtexStructured(text) ==
    LET entries == Loads(text) IN
    IF entries = <<>>
    THEN Raised(ParseError(NoEntriesMsg))
    ELSE LET entry == entries[1] IN
         Returned([original_entry |-> entry,
                   title |-> TitleOf(entry),
                   first_author |-> FirstAuthor(Get(entry, "author", <<>>)),
                   entry_type |-> Get(entry, "ENTRYTYPE", "article"),
                   citation_key |-> Get(entry, "ID", "unknown")])

----------------------------------------------------------------------------
\* Python values that may be None: PyNone, or a string (a token sequence).

PyNone   == [py |-> "None"]
PyStr(s) == [py |-> "str", s |-> s]

IsNone(v) == v.py = "None"

\* not v
Falsy(v) == IsNone(v) \/ v.s = <<>>

\* Texts a backend may answer with that bibtexparser cannot read.
MalformedTexts == { <<"JUNK_AUG">>, <<"JUNK_PLAIN">> }

RECURSIVE BraceDepth(_, _)
\* The brace depth at the end of a text (-1 once a brace closes none).
BraceDepth(s, depth) ==
    IF depth < 0 \/ s = <<>> THEN depth
    ELSE BraceDepth(Tail(s),
                    IF Head(s) = "{" THEN depth + 1
                    ELSE IF Head(s) = "{{" THEN depth + 2
                    ELSE IF Head(s) = "}" THEN depth - 1
                    ELSE IF Head(s) = "}}" THEN depth - 2
                    ELSE depth)

\* Whether bibtexparser.loads(v) raises: on None, and on what it cannot read
\* (here: the texts above, and a text whose braces do not pair up).
LoadsRaises(v) ==
    IsNone(v) \/ v.s \in MalformedTexts \/ BraceDepth(v.s, 0) # 0

----------------------------------------------------------------------------
\* Prompt composition.

RECURSIVE RenderFields(_, _)
RenderFields(rec, names) ==
    IF names = <<>> THEN <<>>
    ELSE (IF Head(names) \in DOMAIN rec.fields
          THEN <<Head(names), "=">> \o rec.fields[Head(names)] \o <<",">>
          ELSE <<>>) \o RenderFields(rec, Tail(names))

RECURSIVE Render(_)
\* The characters of a text, as they are embedded verbatim in a prompt.
Render(text) ==
    IF text = <<>> THEN <<>>
    ELSE (IF IsRecord(Head(text))
          THEN <<"@", Head(text).type, "{", Head(text).key, ",">>
               \o RenderFields(Head(text), <<"title", "author", "year">>)
               \o <<"}">>
          ELSE <<Head(text).type>>) \o Render(Tail(text))

UnknownAuthor == <<"(unknown)">>

MissingInstructionsWarning ==
    "Warning: prompt file not found or unreadable; proceeding without detailed instructions."

\* The part both prompts share after the fenced record: instructions, then
\* the preferences section under the given heading.
PromptTail(instructions, heading, preferences) ==
    (IF ~Falsy(instructions) THEN <<"\n">> \o instructions.s ELSE <<>>)
    \o (IF preferences # <<>>
        THEN <<heading>> \o preferences \o <<"\n">>
        ELSE <<>>)

\* BibFixAgent._create_prompt and StructuredBibFixAgent._create_prompt
CreatePrompt(original_bibtex, parsed, preferences, instructions) ==
    <<"Please search the web for the following academic paper and correct/complete its BibTeX entry:\n\n",
      "Title: \"">> \o parsed.title \o <<"\"", "\n", "First Author: ">>
    \o (IF parsed.first_author # <<>> THEN parsed.first_author ELSE UnknownAuthor)
    \o <<"\n\nOriginal BibTeX entry:\n<fence>bibtex\n">>
    \o Render(original_bibtex) \o <<"\n<fence>\n">>
    \o PromptTail(instructions,
                  "\n5. Apply these user preferences to the formatting:\n",
                  preferences)
    \o <<"\nReturn ONLY the corrected BibTeX entry, properly formatted. Do not include any explanation or additional text.\n">>

\* StructuredBibFixAgent._create_structured_prompt
CreateStructuredPrompt(original_bibtex, parsed, preferences, instructions) ==
    <<"Please search for authoritative information about this academic paper and provide a corrected BibTeX entry:\n\n",
      "Title: \"">> \o parsed.title \o <<"\"", "\n", "First Author: ">>
    \o (IF parsed.first_author # <<>> THEN parsed.first_author ELSE UnknownAuthor)
    \o <<"\n", "Citation Key: ", parsed.citation_key, " (DO NOT CHANGE THIS)",
         "\n\nOriginal BibTeX entry:\n<fence>bibtex\n">>
    \o Render(original_bibtex)
    \o <<"\n<fence>\n\nCRITICAL: The citation_key field MUST be exactly \"",
         parsed.citation_key, "\" - do not change it.\n">>
    \o PromptTail(instructions,
                  "\nAdditional user preferences for formatting:\n",
                  preferences)
    \o <<"\nReturn the entry data in the structured format. Make sure to: ...\n">>

\* What the prompt composer prints to stderr.
PromptWarnings(instructions) ==
    IF Falsy(instructions) THEN <<MissingInstructionsWarning>> ELSE <<>>

----------------------------------------------------------------------------
\* Construction of the agents.  A call is its keyword arguments, a function
\* from parameter names to values; os.getenv reads the environment env.

\* `a or b` on values that are NoneVal, "" or a non-empty string.
Or(a, b) == IF a \in {NoneVal, ""} THEN b ELSE a

\* str.lower() on the provider and router names the callers pass.
Lower(name) ==
    IF name \in {"OpenAI", "OPENAI"} THEN "openai"
    ELSE IF name \in {"OpenRouter", "OPENROUTER"} THEN "openrouter"
    ELSE name

\* Python's binding of keyword arguments: a name the signature lacks is a
\* TypeError before the body runs.
UnexpectedKeywords(kwargs, params) == DOMAIN kwargs \ params

KeywordError(cls) ==
    Exc("TypeError", <<cls, ".__init__() got an unexpected keyword argument">>)

BibFixAgentParams == {"api_key", "prompt_file", "provider"}

\* BibFixAgent._get_default_api_key
GetDefaultApiKey(provider, env) ==
    IF provider = "openrouter" THEN env["OPENROUTER_API_KEY"]
    ELSE env["OPENAI_API_KEY"]

\* BibFixAgent._get_env_var_name
GetEnvVarName(provider) ==
    IF provider = "openrouter" THEN "OPENROUTER_API_KEY" ELSE "OPENAI_API_KEY"

\* BibFixAgent._get_default_model
GetDefaultModel(provider) ==
    IF provider = "openrouter" THEN "openai/gpt-4o" ELSE "gpt-5-mini-2025-08-07"

\* base_url of the OpenRouter client; the OpenAI client is given none.
OpenRouterBaseUrl == "https://openrouter.ai/api/v1"

\* BibFixAgentInit without the check of line 18 for a missing key.
BibFixAgentInitUnchecked(kwargs, env) ==
    LET provider == Lower(Get(kwargs, "provider", "openai")) IN
    Returned([cls |-> "BibFixAgent",
              router |-> provider,
              api_key |-> Or(Get(kwargs, "api_key", NoneVal),
                             GetDefaultApiKey(provider, env)),
              base_url |-> IF provider = "openrouter"
                           THEN OpenRouterBaseUrl ELSE NoneVal,
              headers |-> {},
              model |-> GetDefaultModel(provider),
              use_structured_output |-> FALSE])

\* BibFixAgent.__init__ with _create_client: the agent, or the exception.
BibFixAgentInit(kwargs, env) ==
    IF UnexpectedKeywords(kwargs, BibFixAgentParams) # {}
    THEN Raised(KeywordError("BibFixAgent"))
    ELSE
    LET provider == Lower(Get(kwargs, "provider", "openai"))
        api_key  == Or(Get(kwargs, "api_key", NoneVal),
                       GetDefaultApiKey(provider, env))
    IN  IF api_key \in {NoneVal, ""}
        THEN Raised(Exc("ValueError",
                        <<provider, " API key is required. Set ",
                          GetEnvVarName(provider),
                          " environment variable or pass it as argument.">>))
        ELSE IF provider \notin {"openrouter", "openai"}
        THEN Raised(Exc("ValueError",
                        <<"Unsupported provider: ", provider,
                          ". Supported: 'openai', 'openrouter'">>))
        ELSE Returned([cls |-> "BibFixAgent",
                       router |-> provider,
                       api_key |-> api_key,
                       base_url |-> IF provider = "openrouter"
                                    THEN OpenRouterBaseUrl ELSE NoneVal,
                       headers |-> {},
                       model |-> GetDefaultModel(provider),
                       use_structured_output |-> FALSE])

StructuredBibFixAgentParams ==
    {"api_key", "prompt_file", "model", "router", "openrouter_referer",
     "openrouter_title", "use_structured_output"}

\* The default_headers of the OpenRouter client.
OpenRouterHeaders(kwargs, env) ==
    (IF Or(Get(kwargs, "openrouter_referer", NoneVal), env["HTTP_REFERER"])
            \notin {NoneVal, ""}
     THEN {"HTTP-Referer"} ELSE {})
    \cup
    (IF Or(Get(kwargs, "openrouter_title", NoneVal), env["X_TITLE"])
            \notin {NoneVal, ""}
     THEN {"X-Title"} ELSE {})

\* StructuredBibFixAgent.__init__: the agent, or the exception.
StructuredBibFixAgentInit(kwargs, env) ==
    IF UnexpectedKeywords(kwargs, StructuredBibFixAgentParams) # {}
    THEN Raised(KeywordError("StructuredBibFixAgent"))
    ELSE
    LET router == Lower(Or(Get(kwargs, "router", "openai"), "openai"))
        model  == Or(Get(kwargs, "model", NoneVal), "gpt-5-mini-2025-08-07")
        use    == Get(kwargs, "use_structured_output", TRUE)
    IN  IF router = "openrouter"
        THEN LET api_key == Or(Get(kwargs, "api_key", NoneVal),
                               env["OPENROUTER_API_KEY"])
             IN IF api_key \in {NoneVal, ""}
                THEN Raised(Exc("ValueError",
                         <<"OpenRouter API key is required. Set OPENROUTER_API_KEY or pass api_key.">>))
                ELSE Returned([cls |-> "StructuredBibFixAgent",
                               router |-> router,
                               api_key |-> api_key,
                               base_url |-> OpenRouterBaseUrl,
                               headers |-> OpenRouterHeaders(kwargs, env),
                               model |-> model,
                               use_structured_output |-> use])
        ELSE LET api_key == Or(Get(kwargs, "api_key", NoneVal),
                               env["OPENAI_API_KEY"])
             IN IF api_key \in {NoneVal, ""}
                THEN Raised(Exc("ValueError",
                         <<"OpenAI API key is required. Set OPENAI_API_KEY environment variable or pass it as argument.">>))
                ELSE Returned([cls |-> "StructuredBibFixAgent",
                               router |-> router,
                               api_key |-> api_key,
                               base_url |-> NoneVal,
                               headers |-> {},
                               model |-> model,
                               use_structured_output |-> use])

----------------------------------------------------------------------------
\* The backend.  What a request meets is an input of the call: the client
\* raises (kind "raise", with str(e) = err) or answers (kind "resp").

BackendError(err) == Exc("APIError", <<err>>)

\* A request as the client sends it.
Request(agent, api, web_search, prompt) ==
    [api |-> api, web_search |-> web_search, model |-> agent.model,
     base_url |-> agent.base_url, input |-> prompt]

FormatWarning == "Warning: Response may not be valid BibTeX format"

StageRaised(e) == [raised |-> TRUE, exc |-> e, warns |-> <<>>]

\* Validate with the parse failure left to propagate to the stage's handler.
ValidateOrRaise(text, warning) ==
    IF LoadsRaises(text)
    THEN StageRaised(Exc("BibtexParserError", <<"could not parse">>))
    ELSE [raised |-> FALSE, value |-> text, warns |-> <<>>]

\* The best-effort parse of a stage's text: a failure of bibtexparser.loads is
\* caught on the spot and printed; the text goes on unchanged.
Validate(text, warning) ==
    [raised |-> FALSE, value |-> text,
     warns |-> IF LoadsRaises(text) THEN <<warning>> ELSE <<>>]

RECURSIVE FirstText(_)
\* agent.py lines 123-126: the text of the first content item that has one.
FirstText(content) ==
    IF content = <<>> THEN PyNone
    ELSE IF Head(content).has_text THEN Head(content).text
         ELSE FirstText(Tail(content))

RECURSIVE FirstMessageText(_)
\* agent.py lines 120-127: only the first item of type "message" is looked at.
FirstMessageText(items) ==
    IF items = <<>> THEN PyNone
    ELSE IF Head(items).type = "message"
         THEN FirstText(Head(items).content)
         ELSE FirstMessageText(Tail(items))

StrOfResponse == PyStr(<<"<Response object>">>)

\* agent.py lines 116-131: the text of a Responses-API answer, by its shape.
ExtractText(resp) ==
    IF "output_text" \in resp.attrs THEN resp.output_text
    ELSE IF "__iter__" \in resp.attrs THEN FirstMessageText(resp.items)
    ELSE IF "output" \in resp.attrs THEN resp.output
    ELSE StrOfResponse

ExtractError == Exc("ValueError", <<"Could not extract BibTeX from response">>)

\* AugmentedStage without the check of line 132 for an empty text.
AugmentedStageKeepsEmpty(aug) ==
    IF aug.kind = "raise" THEN StageRaised(BackendError(aug.err))
    ELSE Validate(ExtractText(aug.resp), FormatWarning)

\* agent.py lines 113-140: the augmented stage, given what the request met.
AugmentedStage(aug) ==
    IF aug.kind = "raise" THEN StageRaised(BackendError(aug.err))
    ELSE LET revised_bibtex == ExtractText(aug.resp) IN
         IF Falsy(revised_bibtex) THEN StageRaised(ExtractError)
         ELSE Validate(revised_bibtex, FormatWarning)

\* agent.py lines 147-165 and structured_agent.py lines 285-305: the plain
\* stage, response.choices[0].message.content.
PlainStage(plain) ==
    IF plain.kind = "raise" THEN StageRaised(BackendError(plain.err))
    ELSE Validate(plain.content, FormatWarning)

SystemPreamble ==
    "You are a precise academic assistant that corrects and completes BibTeX entries. Always return valid BibTeX format.\n\n"

\* The outcome of one revise_bibtex call: what it returned or raised, the
\* requests it sent in order, str(e) of each stage that failed, and stderr.
Outcome(out, reqs, failed, stderr) ==
    [out |-> out, reqs |-> reqs, failed |-> failed, stderr |-> stderr]

\* BibFixAgent.revise_bibtex
RevisePlainAgent(agent, bibtex_string, user_preferences, instructions, aug, plain) ==
    LET parsed == ParseBibtexPlain(bibtex_string) IN
    IF parsed.raised THEN Outcome(parsed, <<>>, <<>>, <<>>)
    ELSE
    LET prompt == CreatePrompt(bibtex_string, parsed.value, user_preferences,
                               instructions)
        req1 == Request(agent, "responses", TRUE, <<SystemPreamble>> \o prompt)
        req2 == Request(agent, "chat.completions", FALSE, prompt)
        s1   == AugmentedStage(aug)
        s2   == PlainStage(plain)
        w0   == PromptWarnings(instructions)
    IN  IF ~s1.raised
        THEN Outcome(Returned(s1.value), <<req1>>, <<>>, w0 \o s1.warns)
        ELSE LET note == <<"Note: Responses API failed, falling back to chat completions API without web search">>
             IN IF ~s2.raised
                THEN Outcome(Returned(s2.value), <<req1, req2>>,
                             <<s1.exc.msg>>, w0 \o note \o s2.warns)
                ELSE Outcome(
                        Raised(Exc("RuntimeError",
                                   <<"Failed to call OpenAI API: ">>
                                   \o s1.exc.msg
                                   \o <<" | Fallback also failed: ">>
                                   \o s2.exc.msg)),
                        <<req1, req2>>, <<s1.exc.msg, s2.exc.msg>>,
                        w0 \o note)

----------------------------------------------------------------------------
\* StructuredBibFixAgent.  A BibTexEntry is a function from the names of its
\* fields that are not None to their values.

\* field_order of _structured_entry_to_bibtex
FieldOrder ==
    <<"author", "title", "journal", "booktitle", "year", "volume", "number",
      "pages", "publisher", "address", "series", "edition", "chapter", "note",
      "organization", "school", "institution">>

\* One emitted field line (lines 197-202).
FieldLine(field, value) ==
    <<"  ", field, " = ">>
    \o (IF field = "title" THEN <<"{{">> \o value \o <<"}}">>
        ELSE <<"{">> \o value \o <<"}">>)
    \o <<",">>

RECURSIVE FieldLinesKeepingRequired(_, _)
\* The loop over field_order, had it skipped only the optional fields.
FieldLinesKeepingRequired(structured_entry, fields) ==
    IF fields = <<>> THEN <<>>
    ELSE LET field == Head(fields) IN
         (IF field \in {"author", "title", "year"}
             \/ (field \in DOMAIN structured_entry
                 /\ Strip(structured_entry[field]) # <<>>)
          THEN <<FieldLine(field, structured_entry[field])>>
          ELSE <<>>)
         \o FieldLinesKeepingRequired(structured_entry, Tail(fields))

RECURSIVE FieldLines(_, _)
\* The loop over field_order (lines 194-202).
FieldLines(structured_entry, fields) ==
    IF fields = <<>> THEN <<>>
    ELSE LET field == Head(fields) IN
         (IF field \in DOMAIN structured_entry
             /\ Strip(structured_entry[field]) # <<>>
          THEN <<FieldLine(field, structured_entry[field])>>
          ELSE <<>>)
         \o FieldLines(structured_entry, Tail(fields))

\* Lines 205-206: the last line loses its trailing comma.
DropTrailingComma(lines) ==
    LET last == lines[Len(lines)] IN
    IF last[Len(last)] = ","
    THEN [lines EXCEPT ![Len(lines)] = SubSeq(last, 1, Len(last) - 1)]
    ELSE lines

RECURSIVE JoinLines(_)
\* "\n".join(lines)
JoinLines(lines) ==
    IF lines = <<>> THEN <<>>
    ELSE IF Len(lines) = 1 THEN Head(lines)
         ELSE Head(lines) \o <<"\n">> \o JoinLines(Tail(lines))

\* The lines of _structured_entry_to_bibtex before they are joined.
StructuredEntryLines(structured_entry) ==
    DropTrailingComma(
        << <<"@", structured_entry["entry_type"], "{",
             structured_entry["citation_key"], ",">> >>
        \o FieldLines(structured_entry, FieldOrder))
    \o << <<"}">> >>

\* StructuredBibFixAgent._structured_entry_to_bibtex
StructuredEntryToBibtex(structured_entry) ==
    PyStr(JoinLines(StructuredEntryLines(structured_entry)))

StructuredWarning == "Warning: Generated BibTeX may have formatting issues"

StructuredParseError ==
    Exc("ValueError", <<"Failed to parse structured response">>)

\* structured_agent.py lines 232-261: the schema-constrained stage.
StructuredStage(schema) ==
    IF schema.kind = "raise" THEN StageRaised(BackendError(schema.err))
    ELSE IF schema.parsed = PyNone THEN StageRaised(StructuredParseError)
    ELSE Validate(StructuredEntryToBibtex(schema.parsed), StructuredWarning)

\* _revise_bibtex_traditional, had it sent its request a second time when the
\* first one raised.
ReviseBibtexTraditionalResending(agent, bibtex_string, parsed, user_preferences, instructions, plain, reqs, failed, stderr) ==
    LET prompt == CreatePrompt(bibtex_string, parsed, user_preferences,
                               instructions)
        req    == Request(agent, "chat.completions", FALSE, prompt)
        s      == PlainStage(plain)
        w      == stderr \o PromptWarnings(instructions)
    IN  IF ~s.raised
        THEN Outcome(Returned(s.value), reqs \o <<req>>, failed, w \o s.warns)
        ELSE Outcome(Raised(Exc("RuntimeError",
                                <<"Failed to call API: ">> \o s.exc.msg)),
                     reqs \o <<req, req>>,
                     failed \o <<s.exc.msg, s.exc.msg>>, w)

\* StructuredBibFixAgent._revise_bibtex_traditional, after a list of stages
\* that failed before it.
ReviseBibtexTraditional(agent, bibtex_string, parsed, user_preferences, instructions, plain, reqs, failed, stderr) ==
    LET prompt == CreatePrompt(bibtex_string, parsed, user_preferences,
                               instructions)
        req    == Request(agent, "chat.completions", FALSE, prompt)
        s      == PlainStage(plain)
        w      == stderr \o PromptWarnings(instructions)
    IN  IF ~s.raised
        THEN Outcome(Returned(s.value), reqs \o <<req>>, failed, w \o s.warns)
        ELSE Outcome(Raised(Exc("RuntimeError",
                                <<"Failed to call API: ">> \o s.exc.msg)),
                     reqs \o <<req>>, failed \o <<s.exc.msg>>, w)

\* StructuredBibFixAgent._revise_bibtex_structured
ReviseBibtexStructured(agent, bibtex_string, parsed, user_preferences, instructions, schema, plain) ==
    LET prompt == CreateStructuredPrompt(bibtex_string, parsed,
                                         user_preferences, instructions)
        req    == Request(agent, "beta.chat.completions.parse", FALSE, prompt)
        s      == StructuredStage(schema)
        w      == PromptWarnings(instructions)
    IN  IF ~s.raised
        THEN Outcome(Returned(s.value), <<req>>, <<>>, w \o s.warns)
        ELSE ReviseBibtexTraditional(
                agent, bibtex_string, parsed, user_preferences, instructions,
                plain, <<req>>, <<s.exc.msg>>,
                w \o <<"Structured output failed, falling back to traditional method">>)

\* StructuredBibFixAgent.revise_bibtex
ReviseStructuredAgent(agent, bibtex_string, user_preferences, instructions, schema, plain) ==
    LET parsed == ParseBibtexStructured(bibtex_string) IN
    IF parsed.raised THEN Outcome(parsed, <<>>, <<>>, <<>>)
    ELSE IF agent.use_structured_output /\ agent.router = "openai"
         THEN ReviseBibtexStructured(agent, bibtex_string, parsed.value,
                                     user_preferences, instructions, schema,
                                     plain)
         ELSE ReviseBibtexTraditional(agent, bibtex_string, parsed.value,
                                      user_preferences, instructions, plain,
                                      <<>>, <<>>, <<>>)

----------------------------------------------------------------------------
\* The Streamlit handler of the "Fix BibTeX" button (src/app.py).

\* model_map of the sidebar
ModelMap(model_friendly) ==
    IF model_friendly = "gpt-5-mini" THEN "gpt-5-mini-2025-08-07"
    ELSE IF model_friendly = "gpt-5-nano" THEN "gpt-5-nano-2025-08-07"
    ELSE IF model_friendly = "gpt-4.1" THEN "gpt-4.1"
    ELSE "gpt-5-mini-2025-08-07"

\* Lines 81-96: input, then secrets, then environment.
EffectiveApiKey(router, api_key, secrets, env) ==
    IF router = "OpenAI"
    THEN Or(Or(api_key, secrets["OPENAI_API_KEY"]), env["OPENAI_API_KEY"])
    ELSE Or(Or(api_key, secrets["OPENROUTER_API_KEY"]), env["OPENROUTER_API_KEY"])

EffectiveRouter(router) == IF router = "OpenAI" THEN "openai" ELSE "openrouter"

\* Lines 104-110: the keyword arguments the handler constructs its agent with.
AppAgentKwargs(form, secrets, env) ==
    [api_key |-> EffectiveApiKey(form.router, form.api_key, secrets, env),
     model |-> ModelMap(form.model_friendly),
     router |-> EffectiveRouter(form.router),
     openrouter_referer |-> form.openrouter_referer,
     openrouter_title |-> form.openrouter_title]

\* What the loop of lines 120-136 has done so far.
LoopState(raised, exc, revised_entries, reqs, progress) ==
    [raised |-> raised, exc |-> exc, revised_entries |-> revised_entries,
     reqs |-> reqs, progress |-> progress]

NoExc == Exc("", <<>>)

RECURSIVE ProcessEntries(_, _, _, _, _, _, _)
\* Lines 120-136: one revise_bibtex call per entry, in order; an exception
\* leaves the loop.
ProcessEntries(agent, entries, i, preferences, instructions, doubles, acc) ==
    IF i > Len(entries) THEN acc
    ELSE LET original_entry_text == WriterWrite(entries[i])
             r == RevisePlainAgent(agent, original_entry_text, preferences,
                                   instructions, doubles[i].aug,
                                   doubles[i].plain)
         IN  IF r.out.raised
             THEN LoopState(TRUE, r.out.exc, acc.revised_entries,
                            acc.reqs \o r.reqs, acc.progress)
             ELSE ProcessEntries(
                     agent, entries, i + 1, preferences, instructions, doubles,
                     LoopState(FALSE, NoExc,
                               Append(acc.revised_entries, r.out.value),
                               acc.reqs \o r.reqs,
                               Append(acc.progress, <<i, Len(entries)>>)))

RECURSIVE JoinEntries(_)
\* "\n\n".join(revised_entries), every item a string
JoinEntries(items) ==
    IF items = <<>> THEN <<>>
    ELSE IF Len(items) = 1 THEN Head(items).s
         ELSE Head(items).s \o <<"\n\n">> \o JoinEntries(Tail(items))

\* What the page shows after the handler: st.error, st.warning, the revised
\* text area, and what the run did on the way.
Page(error, warning, combined, loop) ==
    [error |-> error, warning |-> warning, combined |-> combined,
     revised_entries |-> loop.revised_entries, reqs |-> loop.reqs,
     progress |-> loop.progress]

EmptyLoop == LoopState(FALSE, NoExc, <<>>, <<>>, <<>>)

NoMessage == <<>>

\* st.error of the except clause, line 149.
ErrorOccurred(exc) == <<"An error occurred: ">> \o exc.msg

\* Lines 79-149, the whole handler.
FixBibtexHandler(form, secrets, env, instructions, doubles) ==
    LET effective_api_key ==
            EffectiveApiKey(form.router, form.api_key, secrets, env)
    IN
    IF effective_api_key \in {NoneVal, ""}
    THEN Page(<<"Please provide an API key (input or in secrets/environment).">>,
              NoMessage, PyNone, EmptyLoop)
    ELSE IF form.bibtex_content = <<>>
    THEN Page(<<"Please enter BibTeX content.">>, NoMessage, PyNone, EmptyLoop)
    ELSE
    LET made == BibFixAgentInit(AppAgentKwargs(form, secrets, env), env) IN
    IF made.raised
    THEN Page(ErrorOccurred(made.exc), NoMessage, PyNone, EmptyLoop)
    ELSE
    LET entries == Loads(form.bibtex_content) IN
    IF entries = <<>>
    THEN Page(NoMessage, <<"No BibTeX entries found.">>, PyNone, EmptyLoop)
    ELSE
    LET loop == ProcessEntries(made.value, entries, 1, form.preferences,
                               instructions, doubles, EmptyLoop)
    IN  IF loop.raised
        THEN Page(ErrorOccurred(loop.exc), NoMessage, PyNone, loop)
        ELSE IF \E k \in 1..Len(loop.revised_entries) :
                    IsNone(loop.revised_entries[k])
        THEN Page(ErrorOccurred(Exc("TypeError",
                     <<"sequence item: expected str instance, NoneType found">>)),
                  NoMessage, PyNone, loop)
        ELSE Page(NoMessage, NoMessage,
                  PyStr(JoinEntries(loop.revised_entries)), loop)

----------------------------------------------------------------------------
\* Inputs of the operations.

\* How many revise_bibtex calls a caller makes on one agent.
MaxRevise == 2

\* How many chunks the text pasted into the page holds at most.
MaxBatch == 2

Preferences == { <<>>, <<"abbreviate journal names">> }

Instructions == { PyNone, PyStr(<<"1. Use the official title.\n">>) }

Environments ==
    [OPENAI_API_KEY : {NoneVal, "sk-env"},
     OPENROUTER_API_KEY : {NoneVal, "or-env"},
     HTTP_REFERER : {NoneVal},
     X_TITLE : {NoneVal}]

Secrets ==
    { [OPENAI_API_KEY |-> NoneVal, OPENROUTER_API_KEY |-> NoneVal],
      [OPENAI_API_KEY |-> "sk-secret", OPENROUTER_API_KEY |-> "or-secret"] }

\* Keyword arguments a caller constructs a BibFixAgent with.
PlainKwargs ==
    { [x \in {} |-> NoneVal],
      [api_key |-> "sk-arg"],
      [provider |-> "OpenRouter"],
      [api_key |-> "or-arg", provider |-> "openrouter"],
      [api_key |-> "", provider |-> "openai"],
      [api_key |-> "key", provider |-> "azure"] }

\* Keyword arguments a caller constructs a StructuredBibFixAgent with.
StructuredKwargs ==
    { [x \in {} |-> NoneVal],
      [api_key |-> "sk-arg", model |-> "gpt-4.1"],
      [api_key |-> "sk-arg", use_structured_output |-> FALSE],
      [router |-> "OpenRouter"],
      [router |-> "openrouter", api_key |-> "or-arg",
       openrouter_referer |-> "https://example.org",
       openrouter_title |-> "bib"],
      [router |-> "", api_key |-> ""] }

MessageItem(content) == [type |-> "message", content |-> content]
TextItem(text)       == [has_text |-> TRUE, text |-> text]
OtherItem            == [has_text |-> FALSE, text |-> PyNone]

Response(attrs, output_text, items, output) ==
    [attrs |-> attrs, output_text |-> output_text, items |-> items,
     output |-> output]

BibAug   == PyStr(<<"BIB_AUG">>)
JunkAug  == PyStr(<<"JUNK_AUG">>)
BibPlain == PyStr(<<"BIB_PLAIN">>)

\* Answers of the Responses API, one of each shape the code tells apart.
Responses ==
    { Response({"output_text", "output"}, BibAug, <<>>, PyNone),
      Response({"output_text"}, JunkAug, <<>>, PyNone),
      Response({"output_text"}, PyStr(<<>>), <<>>, PyNone),
      Response({"output_text"}, PyNone, <<>>, BibAug),
      Response({"__iter__"}, PyNone,
               << [type |-> "reasoning", content |-> <<>>],
                  MessageItem(<<OtherItem, TextItem(BibAug)>>) >>, PyNone),
      Response({"__iter__"}, PyNone,
               << MessageItem(<<>>), MessageItem(<<TextItem(BibAug)>>) >>,
               PyNone),
      Response({"output"}, PyNone, <<>>, JunkAug),
      Response({}, PyNone, <<>>, PyNone) }

AugOutcomes ==
    { [kind |-> "raise", err |-> "E_aug"] }
    \cup { [kind |-> "resp", resp |-> r] : r \in Responses }

PlainOutcomes ==
    { [kind |-> "raise", err |-> "E_plain"] }
    \cup { [kind |-> "resp", content |-> c] :
             c \in {PyNone, PyStr(<<>>), BibPlain, PyStr(<<"JUNK_PLAIN">>)} }

\* BibTexEntry values the schema-constrained request may come back with.
StructuredEntries ==
    { [entry_type |-> "article", citation_key |-> "doe2020",
       author |-> DoeJohn, title |-> AStudy, year |-> Y2020,
       journal |-> <<"J">>, note |-> <<" ">>],
      [entry_type |-> "misc", citation_key |-> "doe2020a",
       author |-> Plato, title |-> AStudy, year |-> Y2020,
       pages |-> <<>>],
      [entry_type |-> "book", citation_key |-> "anon",
       author |-> <<>>, title |-> <<"{", "B">>, year |-> Y2020,
       publisher |-> <<"P">>],
      [entry_type |-> "inproceedings", citation_key |-> "roe21",
       author |-> RoeAndDoe, title |-> BIb, year |-> <<" ">>,
       institution |-> <<"I">>, school |-> <<"S">>,
       organization |-> <<"O">>, chapter |-> <<"3">>, edition |-> <<"2">>,
       series |-> <<"L">>, address |-> <<"A">>, number |-> <<"1">>,
       volume |-> <<"7">>, booktitle |-> <<"C">>, pages |-> <<"1", "-", "-", "9">>] }

SchemaOutcomes ==
    { [kind |-> "raise", err |-> "E_schema"],
      [kind |-> "resp", parsed |-> PyNone] }
    \cup { [kind |-> "resp", parsed |-> e] : e \in StructuredEntries }

\* A stage the agent at hand does not have.
Unused == [kind |-> "unused"]

\* The chunks a pasted text is made of.
ChunkPool == {DoeRecord, RoeRecord, Junk}

PastedTexts == UNION { [1..n -> ChunkPool] : n \in 0..MaxBatch }

\* The sidebar and the text area, as the handler reads them.
Forms ==
    { [router |-> "OpenAI", api_key |-> k, openrouter_referer |-> NoneVal,
       openrouter_title |-> NoneVal, model_friendly |-> m,
       preferences |-> <<>>, bibtex_content |-> t] :
         k \in {"", "sk-ui"}, m \in {"gpt-5-mini", "gpt-4.1"},
         t \in PastedTexts }
    \cup
    { [router |-> "OpenRouter", api_key |-> k, openrouter_referer |-> "",
       openrouter_title |-> "bib", model_friendly |-> "gpt-5-nano",
       preferences |-> <<"abbreviate journal names">>, bibtex_content |-> t] :
         k \in {"", "or-ui"}, t \in PastedTexts }

\* What the requests of the handler's agent meet, per entry.
EntryDoubles ==
    { [aug |-> [kind |-> "resp",
                resp |-> Response({"output_text"}, BibAug, <<>>, PyNone)],
       plain |-> [kind |-> "resp", content |-> BibPlain]],
      [aug |-> [kind |-> "raise", err |-> "E_aug"],
       plain |-> [kind |-> "resp", content |-> BibPlain]],
      [aug |-> [kind |-> "raise", err |-> "E_aug"],
       plain |-> [kind |-> "raise", err |-> "E_plain"]] }

----------------------------------------------------------------------------
\* The state machine: a caller constructs an agent and calls its methods, or
\* the page's button is pressed.

VARIABLES env, agent, ctor, last, net, page, nrevise

vars == <<env, agent, ctor, last, net, page, nrevise>>

NoAgent == [cls |-> "None"]
NoCall  == [op |-> "none"]
NoPage  == [shown |-> FALSE]

\* What the network sees of a request.
Wire(req) == [api |-> req.api, web_search |-> req.web_search,
              base_url |-> req.base_url]

RECURSIVE Wires(_)
Wires(reqs) ==
    IF reqs = <<>> THEN <<>> ELSE <<Wire(Head(reqs))>> \o Wires(Tail(reqs))

Init ==
    /\ env \in Environments
    /\ agent = NoAgent
    /\ ctor = NoCall
    /\ last = NoCall
    /\ net = <<>>
    /\ page = NoPage
    /\ nrevise = 0

Idle == ctor = NoCall /\ page = NoPage

\* A constructor call ends: the agent exists only if it did not raise.
Constructed(cls, kwargs, made) ==
    /\ ctor' = [op |-> cls, kwargs |-> kwargs, out |-> made]
    /\ agent' = IF made.raised THEN NoAgent ELSE made.value
    /\ UNCHANGED <<env, last, net, page, nrevise>>

\* BibFixAgent(**kwargs)
NewBibFixAgent ==
    /\ Idle
    /\ \E kwargs \in PlainKwargs :
          Constructed("BibFixAgent", kwargs, BibFixAgentInit(kwargs, env))

\* StructuredBibFixAgent(**kwargs)
NewStructuredBibFixAgent ==
    /\ Idle
    /\ \E kwargs \in StructuredKwargs :
          Constructed("StructuredBibFixAgent", kwargs,
                      StructuredBibFixAgentInit(kwargs, env))

\* agent.parse_bibtex(text)
ParseBibtex ==
    /\ agent # NoAgent
    /\ last = NoCall
    /\ \E text \in Texts :
          last' = [op |-> "parse_bibtex", text |-> text,
                   out |-> IF agent.cls = "BibFixAgent"
                           THEN ParseBibtexPlain(text)
                           ELSE ParseBibtexStructured(text)]
    /\ UNCHANGED <<env, agent, ctor, net, page, nrevise>>

\* A revise_bibtex call ends: its requests have gone out.
Revised(text, preferences, instructions, schema, aug, plain, res) ==
    /\ last' = [op |-> "revise_bibtex", text |-> text,
                preferences |-> preferences, instructions |-> instructions,
                schema |-> schema, aug |-> aug, plain |-> plain, res |-> res]
    /\ net' = net \o Wires(res.reqs)
    /\ nrevise' = nrevise + 1
    /\ UNCHANGED <<env, agent, ctor, page>>

\* BibFixAgent.revise_bibtex(text, preferences)
ReviseBibtexPlain ==
    /\ agent # NoAgent
    /\ agent.cls = "BibFixAgent"
    /\ last = NoCall
    /\ nrevise < MaxRevise
    /\ \E text \in Texts, preferences \in Preferences,
          instructions \in Instructions,
          aug \in AugOutcomes, plain \in PlainOutcomes :
          Revised(text, preferences, instructions, Unused, aug, plain,
                  RevisePlainAgent(agent, text, preferences, instructions,
                                   aug, plain))

\* StructuredBibFixAgent.revise_bibtex(text, preferences)
ReviseBibtexStrict ==
    /\ agent # NoAgent
    /\ agent.cls = "StructuredBibFixAgent"
    /\ last = NoCall
    /\ nrevise < MaxRevise
    /\ \E text \in Texts, preferences \in Preferences,
          instructions \in Instructions,
          schema \in SchemaOutcomes, plain \in PlainOutcomes :
          Revised(text, preferences, instructions, schema, Unused, plain,
                  ReviseStructuredAgent(agent, text, preferences,
                                        instructions, schema, plain))

\* The call is over: nothing of it stays behind in the agent, and the caller
\* goes on to its next call.
CallerGoesOn ==
    /\ last # NoCall
    /\ last' = NoCall
    /\ UNCHANGED <<env, agent, ctor, net, page, nrevise>>

\* The "Fix BibTeX" button is pressed.
FixBibtex ==
    /\ Idle
    /\ \E form \in Forms, secrets \in Secrets, instructions \in Instructions,
          doubles \in [1..MaxBatch -> EntryDoubles] :
          LET shown == FixBibtexHandler(form, secrets, env, instructions,
                                        doubles)
          IN  /\ page' = [shown |-> TRUE, form |-> form, secrets |-> secrets,
                          doubles |-> doubles, out |-> shown]
              /\ net' = net \o Wires(shown.reqs)
    /\ UNCHANGED <<env, agent, ctor, last, nrevise>>

Next ==
    \/ NewBibFixAgent
    \/ NewStructuredBibFixAgent
    \/ ParseBibtex
    \/ ReviseBibtexPlain
    \/ ReviseBibtexStrict
    \/ CallerGoesOn
    \/ FixBibtex

Spec == Init /\ [][Next]_vars

----------------------------------------------------------------------------
\* Properties.

Revising == last.op = "revise_bibtex"

\* The record handed to revise_bibtex parses.
RecordParses == Loads(last.text) # <<>>

PlainAgent  == agent.cls = "BibFixAgent"
StrictAgent == agent.cls = "StructuredBibFixAgent"

\* The agent takes the schema-constrained path.
StrictPath == StrictAgent /\ agent.use_structured_output /\ agent.router = "openai"

\* The augmented request raised, or no text could be taken from its answer.
AugmentedFailed ==
    \/ last.aug.kind = "raise"
    \/ last.aug.kind = "resp" /\ Falsy(ExtractText(last.aug.resp))

\* str(e) of the failure of the augmented stage.
AugmentedCause ==
    IF last.aug.kind = "raise" THEN <<last.aug.err>>
    ELSE <<"Could not extract BibTeX from response">>

\* The schema-constrained request raised, or its answer held no parsed entry.
SchemaFailed ==
    \/ last.schema.kind = "raise"
    \/ last.schema.kind = "resp" /\ last.schema.parsed = PyNone

SchemaCause ==
    IF last.schema.kind = "raise" THEN <<last.schema.err>>
    ELSE <<"Failed to parse structured response">>

\* The stage a request belongs to.
StageOf(req) ==
    IF req.api = "beta.chat.completions.parse" THEN "schema"
    ELSE IF req.web_search THEN "augmented"
    ELSE "plain"

StageRank(stage) ==
    IF stage = "schema" THEN 1 ELSE IF stage = "augmented" THEN 2 ELSE 3

\* C1: in BibFixAgent.revise_bibtex, for a record that parses, when the
\* augmented request raises or yields empty/falsy text and the plain request
\* succeeds, the call returns exactly the plain request's text and does not
\* raise.
C1_FallbackReturnsPlainText ==
    (Revising /\ PlainAgent /\ RecordParses /\ AugmentedFailed
        /\ last.plain.kind = "resp")
    => /\ ~last.res.out.raised
       /\ last.res.out.value = last.plain.content

\* A call in which the augmented answer held an empty text and the plain
\* request answered with a text, which was returned.
C1_Witness ==
    /\ Revising /\ PlainAgent /\ RecordParses
    /\ last.aug.kind = "resp" /\ Falsy(ExtractText(last.aug.resp))
    /\ last.plain.kind = "resp" /\ last.plain.content = BibPlain
    /\ ~last.res.out.raised /\ last.res.out.value = BibPlain
    /\ Len(last.res.reqs) = 2

\* C2: whenever every stage attempted for a record raises, revise_bibtex raises
\* an error whose message contains the error string of each failed stage, in
\* the plain agent (augmented, plain) and in the strict agent (schema stage,
\* then its fallback stage).
C2_TerminalFailureNamesEveryCause ==
    (Revising /\ RecordParses /\ last.plain.kind = "raise")
    => /\ (PlainAgent /\ AugmentedFailed)
            => /\ last.res.out.raised
               /\ Contains(last.res.out.exc.msg, AugmentedCause)
               /\ Contains(last.res.out.exc.msg, <<last.plain.err>>)
       /\ (StrictPath /\ SchemaFailed)
            => /\ last.res.out.raised
               /\ Contains(last.res.out.exc.msg, SchemaCause)
               /\ Contains(last.res.out.exc.msg, <<last.plain.err>>)
       /\ (StrictAgent /\ ~StrictPath)
            => /\ last.res.out.raised
               /\ Contains(last.res.out.exc.msg, <<last.plain.err>>)

\* C3: the stages of one call are attempted in the order schema-constrained,
\* augmented, plain; under the direct-provider configuration the plain request
\* is sent only after an augmented request of the same call.
C3_AugmentedBeforePlain ==
    Revising
    => LET reqs == last.res.reqs IN
       /\ \A i, j \in DOMAIN reqs :
             i < j => StageRank(StageOf(reqs[i])) < StageRank(StageOf(reqs[j]))
       /\ \A i \in DOMAIN reqs :
             (StageOf(reqs[i]) = "plain" /\ agent.router = "openai")
             => \E j \in 1..(i - 1) : StageOf(reqs[j]) = "augmented"

\* C4: an agent configured for the proxy backend (openrouter) never issues a
\* request that carries the web-search capability.
C4_ProxyNeverSendsWebSearch ==
    (agent # NoAgent /\ agent.router = "openrouter")
    => \A i \in DOMAIN net : ~net[i].web_search

\* The page's run had a credential and a text with at least one record.
BatchRun ==
    /\ page.shown
    /\ EffectiveApiKey(page.form.router, page.form.api_key, page.secrets, env)
            \notin {NoneVal, ""}
    /\ Loads(page.form.bibtex_content) # <<>>

\* The records of the page's text.
BatchEntries == Loads(page.form.bibtex_content)

\* Every request made for entry j raises.
EntryFails(j) ==
    /\ page.doubles[j].aug.kind = "raise"
    /\ page.doubles[j].plain.kind = "raise"

\* The first request made for entry j answers with a text.
EntrySucceeds(j) ==
    /\ page.doubles[j].aug.kind = "resp"
    /\ ~Falsy(ExtractText(page.doubles[j].aug.resp))

\* C5: a failure is fatal only for the record it occurs in: of a batch, every
\* record whose own processing does not fail is processed and its result shown,
\* whatever happens to the records before it.
C5_FailureIsolatedPerRecord ==
    BatchRun
    => LET good == { j \in DOMAIN BatchEntries : ~EntryFails(j) } IN
       good # {}
       => /\ ~IsNone(page.out.combined)
          /\ Len(page.out.revised_entries) = Cardinality(good)

RECURSIVE Repeat(_, _)
\* n copies of a string, as a list
Repeat(v, n) == IF n = 0 THEN <<>> ELSE <<v>> \o Repeat(v, n - 1)

\* C6: with a credential, n >= 1 parsable records and every backend call
\* answering with text, the page ends with the n per-record results in input
\* order joined by a blank line, progress at n/n, and no error message.
C6_BatchSucceeds ==
    (BatchRun /\ \A j \in DOMAIN BatchEntries : EntrySucceeds(j))
    => LET n == Len(BatchEntries) IN
       /\ page.out.error = NoMessage
       /\ page.out.combined = PyStr(JoinEntries(Repeat(BibAug, n)))
       /\ page.out.progress # <<>>
       /\ page.out.progress[Len(page.out.progress)] = <<n, n>>

\* No credential reaches the constructor call: no explicit key, and none in
\* the environment for the backend the call selects.
CtorWithoutCredential ==
    /\ ctor # NoCall
    /\ Get(ctor.kwargs, "api_key", NoneVal) \in {NoneVal, ""}
    /\ LET name == IF ctor.op = "BibFixAgent"
                   THEN Get(ctor.kwargs, "provider", "openai")
                   ELSE Get(ctor.kwargs, "router", "openai")
       IN  IF Lower(name) = "openrouter"
           THEN env["OPENROUTER_API_KEY"] = NoneVal
           ELSE env["OPENAI_API_KEY"] = NoneVal

\* The page's run has no credential: not typed in, not in the secrets, not in
\* the environment.
PageWithoutCredential ==
    /\ page.shown
    /\ page.form.api_key = ""
    /\ IF page.form.router = "OpenAI"
       THEN page.secrets["OPENAI_API_KEY"] = NoneVal
            /\ env["OPENAI_API_KEY"] = NoneVal
       ELSE page.secrets["OPENROUTER_API_KEY"] = NoneVal
            /\ env["OPENROUTER_API_KEY"] = NoneVal

\* C7: without a credential for the selected backend the construction (or, on
\* the page, the run) fails with a configuration error and no network request
\* is ever issued in that run.
C7_NoCredentialNoNetwork ==
    /\ CtorWithoutCredential
       => /\ ctor.out.raised
          /\ ctor.out.exc.type = "ValueError"
          /\ agent = NoAgent
          /\ net = <<>>
    /\ PageWithoutCredential
       => /\ page.out.error
                = <<"Please provide an API key (input or in secrets/environment).">>
          /\ page.out.reqs = <<>>
          /\ net = <<>>

\* A constructor call without a credential has raised, and the page has
\* refused a run without one.
C7_Witness ==
    \/ CtorWithoutCredential /\ ctor.op = "StructuredBibFixAgent"
         /\ ctor.out.raised
    \/ PageWithoutCredential /\ page.form.bibtex_content # <<>>

\* The text the augmented stage took from its answer cannot be read as a
\* record.
AugmentedTextUnreadable ==
    /\ last.aug.kind = "resp"
    /\ ~Falsy(ExtractText(last.aug.resp))
    /\ LoadsRaises(ExtractText(last.aug.resp))

PlainTextUnreadable ==
    last.plain.kind = "resp" /\ LoadsRaises(last.plain.content)

SchemaTextUnreadable ==
    /\ last.schema.kind = "resp"
    /\ last.schema.parsed # PyNone
    /\ LoadsRaises(StructuredEntryToBibtex(last.schema.parsed))

\* The last request of the call belongs to the given stage.
EndsWith(stage) ==
    /\ last.res.reqs # <<>>
    /\ StageOf(last.res.reqs[Len(last.res.reqs)]) = stage

\* C8: in every stage, a text that fails the best-effort parse does not abort
\* the call and triggers no further stage: that very text is returned.
C8_FormatValidityIsAdvisory ==
    (Revising /\ RecordParses)
    => /\ (PlainAgent /\ AugmentedTextUnreadable)
            => /\ last.res.out = Returned(ExtractText(last.aug.resp))
               /\ Len(last.res.reqs) = 1 /\ EndsWith("augmented")
       /\ (PlainAgent /\ AugmentedFailed /\ PlainTextUnreadable)
            => /\ last.res.out = Returned(last.plain.content)
               /\ Len(last.res.reqs) = 2 /\ EndsWith("plain")
       /\ (StrictPath /\ SchemaTextUnreadable)
            => /\ last.res.out
                    = Returned(StructuredEntryToBibtex(last.schema.parsed))
               /\ Len(last.res.reqs) = 1 /\ EndsWith("schema")
       /\ (StrictPath /\ SchemaFailed /\ PlainTextUnreadable)
            => /\ last.res.out = Returned(last.plain.content)
               /\ Len(last.res.reqs) = 2 /\ EndsWith("plain")
       /\ (StrictAgent /\ ~StrictPath /\ PlainTextUnreadable)
            => /\ last.res.out = Returned(last.plain.content)
               /\ Len(last.res.reqs) = 1 /\ EndsWith("plain")

\* The augmented stage got a text that cannot be read as a record, warned, and
\* returned it.
C8_Witness ==
    /\ Revising /\ PlainAgent /\ RecordParses /\ AugmentedTextUnreadable
    /\ last.res.out = Returned(JunkAug)
    /\ \E i \in DOMAIN last.res.stderr : last.res.stderr[i] = FormatWarning

\* The first record of a text.
FirstRecord(text) == text[CHOOSE i \in DOMAIN text :
                            /\ IsRecord(text[i])
                            /\ \A j \in 1..(i - 1) : ~IsRecord(text[j])]

\* What bibtexparser hands over as the author field of the first record.
AuthorField(text) ==
    IF "author" \in DOMAIN FirstRecord(text).fields
    THEN LoadsValue(FirstRecord(text).fields["author"])
    ELSE <<>>

\* One name in 'Last, First' form: a comma, no " and ".
SingleLastFirst(authors) ==
    Contains(authors, Comma) /\ ~Contains(authors, AndSep)

\* C9: for a record whose author field is one name in 'Last, First' form
\* (author={Doe, John}), parse yields first_author equal to the whole name and
\* the composed prompt contains 'Title: "a study"' and
\* 'First Author: Doe, John'.
C9_SingleAuthorKeptWhole ==
    /\ (last.op = "parse_bibtex" /\ ~last.out.raised
            /\ SingleLastFirst(AuthorField(last.text)))
       => last.out.value.first_author = AuthorField(last.text)
    /\ (Revising /\ last.text = <<DoeRecord>>)
       => \A i \in DOMAIN last.res.reqs :
             /\ Contains(last.res.reqs[i].input,
                         <<"Title: \"">> \o AStudy \o <<"\"">>)
             /\ Contains(last.res.reqs[i].input,
                         <<"First Author: ">> \o DoeJohn)

\* C10: for every well-formed single-record input, the fingerprint returned by
\* parse_bibtex carries a citation_key equal to the record's key, in both
\* agents.
C10_FingerprintCarriesKey ==
    (last.op = "parse_bibtex" /\ ~last.out.raised)
    => /\ "citation_key" \in DOMAIN last.out.value
       /\ last.out.value["citation_key"] = FirstRecord(last.text).key

\* The schema-constrained stage handed over a StructuredResult, so the text
\* returned is the one the serializer made of it.
SerializedReturn ==
    /\ Revising /\ StrictPath /\ RecordParses
    /\ last.schema.kind = "resp"
    /\ last.schema.parsed # PyNone

\* The citation key of a serialized record: what follows the opening brace
\* of its first line.
KeyOfSerialized(text) == text[4]

\* C11: whenever the strict path returns a record serialized from a
\* StructuredResult, the citation key in the returned text equals the
\* citation_key of the fingerprint of the input record, whatever key the
\* backend put in its structured response.
C11_SerializedKeyIsFingerprintKey ==
    SerializedReturn
    => /\ ~last.res.out.raised
       /\ KeyOfSerialized(last.res.out.value.s)
            = ParseBibtexStructured(last.text).value["citation_key"]

RECURSIVE EmittedFieldsFrom(_, _)
\* The names of the field lines of a serialized record from position i on:
\* a field line opens with its two-space indent, followed by the name.
EmittedFieldsFrom(text, i) ==
    IF i >= Len(text) THEN <<>>
    ELSE IF text[i] = "  "
         THEN <<text[i + 1]>> \o EmittedFieldsFrom(text, i + 2)
         ELSE EmittedFieldsFrom(text, i + 1)

EmittedFields(text) == EmittedFieldsFrom(text, 1)

RequiredFields == {"author", "title", "year"}

\* The fixed order the claim names.
ClaimedOrder ==
    <<"author", "title", "journal", "booktitle", "year", "volume", "number",
      "pages", "publisher", "address", "series", "edition", "chapter", "note",
      "organization", "school", "institution">>

\* The field is set in the StructuredResult and is not blank once trimmed.
NonBlank(structured_entry, field) ==
    /\ field \in DOMAIN structured_entry
    /\ Strip(structured_entry[field]) # <<>>

\* C12 as stated: the emitted field lines are exactly the required fields
\* author, title, year plus the optional fields whose trimmed value is
\* non-empty, each once, in the fixed order; only optional fields are ever
\* omitted.
C12_RequiredFieldsAlwaysEmitted ==
    SerializedReturn
    => /\ ~last.res.out.raised
       /\ EmittedFields(last.res.out.value.s)
            = SelectSeq(ClaimedOrder,
                        LAMBDA f : \/ f \in RequiredFields
                                   \/ NonBlank(last.schema.parsed, f))

\* C12, amended: the emitted field lines are exactly the fields, required
\* or optional, whose trimmed value is non-empty, each once, in the fixed
\* order; a required field that is empty or whitespace-only is omitted like
\* an optional one.
C12_NonBlankFieldsInOrder ==
    SerializedReturn
    => /\ ~last.res.out.raised
       /\ EmittedFields(last.res.out.value.s)
            = SelectSeq(ClaimedOrder,
                        LAMBDA f : NonBlank(last.schema.parsed, f))

\* A StructuredResult with a blank required field and fields to keep on both
\* sides of it has been serialized and returned.
C12_Witness ==
    /\ SerializedReturn
    /\ ~last.res.out.raised
    /\ \E f \in RequiredFields : ~NonBlank(last.schema.parsed, f)
    /\ Len(EmittedFields(last.res.out.value.s)) >= 3

\* Opening braces minus closing braces among the first k characters of s.
DepthAfter(s, k) ==
    Cardinality({i \in 1..k : s[i] = "{"})
    - Cardinality({i \in 1..k : s[i] = "}"})

\* s is one brace group: its first character is an opening brace whose
\* partner is its last character.
Enclosed(s) ==
    /\ Len(s) >= 2
    /\ s[1] = "{"
    /\ s[Len(s)] = "}"
    /\ \A k \in 1..(Len(s) - 1) : DepthAfter(s, k) > 0

\* s without its enclosing brace layer, if it has one.
Peel(s) == IF Enclosed(s) THEN SubSeq(s, 2, Len(s) - 1) ELSE s

\* The title value bibtexparser hands to parse_bibtex.
LoadedTitle == Get(Loads(last.text)[1], "title", <<>>)

\* C13: the title of the fingerprint is the title value with at most two
\* matched outer brace layers removed and nothing else: inner braces and
\* braces that do not enclose the whole title stay.
C13_TitleLosesOnlyEnclosingLayers ==
    (last.op = "parse_bibtex" /\ ~last.out.raised)
    => last.out.value["title"]
         \in {LoadedTitle, Peel(LoadedTitle), Peel(Peel(LoadedTitle))}

\* The stages of the chain the agent of this call goes through.
ChainLength == IF PlainAgent \/ StrictPath THEN 2 ELSE 1

\* The first stage of the chain handed over usable text.
FirstStageUsable ==
    \/ PlainAgent /\ ~AugmentedFailed
    \/ StrictPath /\ ~SchemaFailed
    \/ StrictAgent /\ ~StrictPath /\ last.plain.kind = "resp"

\* C14: within one revise_bibtex call each request strategy is sent at most
\* once, nothing is sent after a stage has handed over usable text, and the
\* call costs at most one request per stage of its chain; these requests are
\* all the call puts on the network.
C14_NoInternalRetry ==
    Revising
    => LET reqs == last.res.reqs IN
       /\ \A i, j \in DOMAIN reqs : i # j => StageOf(reqs[i]) # StageOf(reqs[j])
       /\ Len(reqs) <= ChainLength
       /\ (RecordParses /\ FirstStageUsable) => Len(reqs) = 1
       /\ ~RecordParses => reqs = <<>>
       /\ Len(net) >= Len(reqs)
       /\ SubSeq(net, Len(net) - Len(reqs) + 1, Len(net)) = Wires(reqs)

\* A call whose first stage failed has sent its second stage, once, and
\* that one failed as well.
C14_Witness ==
    /\ Revising /\ RecordParses /\ StrictPath /\ SchemaFailed
    /\ last.plain.kind = "raise"
    /\ last.res.out.raised
    /\ Len(last.res.reqs) = 2

\* C15: every revise_bibtex call either raises or returns a non-empty text
\* string; it never returns None or an empty text, also when the plain stage
\* answers with missing or empty message content.
C15_ReturnsNonEmptyText ==
    Revising
    => \/ last.res.out.raised
       \/ /\ ~IsNone(last.res.out.value)
          /\ last.res.out.value.s # <<>>

====
